---- MODULE Spec2Model ----
(***************************************************************************)
(* Countdown image server (server.js): the time source, the parameter      *)
(* normalisation of the two image endpoints, and the GIF render cache      *)
(* with its in-flight map, run on a single-threaded event loop.            *)
(*                                                                         *)
(* Instants are milliseconds.  A handler's synchronous span is atomic with *)
(* respect to other handlers (the `running` handler excludes all others);  *)
(* the continuation of an `await` is a microtask, run in FIFO order, and   *)
(* no new handler starts while the microtask queue is being drained.       *)
(***************************************************************************)
EXTENDS Integers, Sequences, FiniteSets, TLC

\* ------------------------------------------------------------------ bounds
NumReqs == 3            \* requests that arrive in one behaviour
MaxTicks == 2           \* how many times the wall clock advances
MaxPadded == 120        \* the largest number whose digit text is compared

\* --------------------------------------------------------------- constants
TARGET == 259200000     \* TARGET.getTime(), configured through TARGET_ISO
TTL == 60000            \* now + 60_000
ClockStep == TTL \div 2 \* the granularity at which the model's clock advances

\* -------------------------------------------------------------- JS numbers
\* A JS number that is either NaN or an integer.
Num(v) == [nan |-> FALSE, val |-> v]
NaN == [nan |-> TRUE, val |-> 0]

MathMax(a, b) ==
  IF a.nan \/ b.nan THEN NaN ELSE IF a.val >= b.val THEN a ELSE b

MathMin(a, b) ==
  IF a.nan \/ b.nan THEN NaN ELSE IF a.val <= b.val THEN a ELSE b

\* -------------------------------------------------------- query parameters
\* req.query.<name>: undefined, or a string (a sequence of characters).
Absent == [present |-> FALSE, text |-> <<>>]
Q(t) == [present |-> TRUE, text |-> t]

\* req.query.w || "640": undefined and "" are falsy.
OrDefault(q, d) == IF ~q.present \/ q.text = <<>> THEN d ELSE q.text

DigitChars == <<"0", "1", "2", "3", "4", "5", "6", "7", "8", "9">>
IsDigit(c) == \E i \in 1..10 : DigitChars[i] = c
DigitVal(c) == (CHOOSE i \in 1..10 : DigitChars[i] = c) - 1

RECURSIVE SkipWhite(_)
SkipWhite(t) ==
  IF t # <<>> /\ Head(t) = " " THEN SkipWhite(Tail(t)) ELSE t

\* The value of the longest prefix of decimal digits of t, continuing acc.
RECURSIVE DigitsValue(_, _)
DigitsValue(t, acc) ==
  IF t # <<>> /\ IsDigit(Head(t))
    THEN DigitsValue(Tail(t), acc * 10 + DigitVal(Head(t)))
    ELSE acc

\* parseInt(t, 10): leading white space, an optional sign, then the longest
\* prefix of digits; NaN when there is no digit.
parseInt(t) ==
  LET s == SkipWhite(t)
      neg == s # <<>> /\ Head(s) = "-"
      u == IF s # <<>> /\ Head(s) \in {"-", "+"} THEN Tail(s) ELSE s
  IN IF u = <<>> \/ ~IsDigit(Head(u)) THEN NaN
     ELSE Num(IF neg THEN 0 - DigitsValue(u, 0) ELSE DigitsValue(u, 0))

\* Clamp with Math.min and Math.max exchanged.
ClampSwapped(q, d, lo, hi) ==
  MathMax(MathMin(parseInt(OrDefault(q, d)), Num(lo)), Num(hi))

\* Math.min(Math.max(parseInt(q || d, 10), lo), hi)
Clamp(q, d, lo, hi) ==
  MathMin(MathMax(parseInt(OrDefault(q, d)), Num(lo)), Num(hi))

NormW(q) == Clamp(q, <<"6", "4", "0">>, 320, 1200)
NormH(q) == Clamp(q, <<"2", "0", "0">>, 140, 600)
NormS(q) == Clamp(q, <<"6", "0">>, 10, 120)

\* String(n) of a JS number.
RECURSIVE DecStr(_)
DecStr(n) ==
  IF n < 10 THEN DigitChars[n + 1]
  ELSE DecStr(n \div 10) \o DigitChars[(n % 10) + 1]

NumStr(x) ==
  IF x.nan THEN "NaN"
  ELSE IF x.val < 0 THEN "-" \o DecStr(0 - x.val) ELSE DecStr(x.val)

\* gifKey without the width.
gifKeyNoWidth(w, h, s) == NumStr(h) \o "_s" \o NumStr(s)

\* `${w}x${h}_s${s}`
gifKey(w, h, s) == NumStr(w) \o "x" \o NumStr(h) \o "_s" \o NumStr(s)

\* ------------------------------------------------------------- time source
FloorDiv(a, b) == a \div b

\* getRemainingParts with the hours taken from all the seconds.
getRemainingPartsAllHours(now) ==
  LET diffMs == TARGET - now
      totalSeconds == FloorDiv(diffMs, 1000)
  IN IF diffMs <= 0
       THEN [days |-> 0, hours |-> 0, mins |-> 0, secs |-> 0, done |-> TRUE]
       ELSE [days |-> FloorDiv(totalSeconds, 86400),
             hours |-> FloorDiv(totalSeconds, 3600),
             mins |-> FloorDiv(totalSeconds % 3600, 60),
             secs |-> totalSeconds % 60,
             done |-> FALSE]

\* getRemainingParts that treats the deadline instant itself as not reached.
getRemainingPartsStrict(now) ==
  LET diffMs == TARGET - now
      totalSeconds == FloorDiv(diffMs, 1000)
  IN IF diffMs < 0
       THEN [days |-> 0, hours |-> 0, mins |-> 0, secs |-> 0, done |-> TRUE]
       ELSE [days |-> FloorDiv(totalSeconds, 86400),
             hours |-> FloorDiv(totalSeconds % 86400, 3600),
             mins |-> FloorDiv(totalSeconds % 3600, 60),
             secs |-> totalSeconds % 60,
             done |-> FALSE]

getRemainingParts(now) ==
  LET diffMs == TARGET - now
      totalSeconds == FloorDiv(diffMs, 1000)
  IN IF diffMs <= 0
       THEN [days |-> 0, hours |-> 0, mins |-> 0, secs |-> 0, done |-> TRUE]
       ELSE [days |-> FloorDiv(totalSeconds, 86400),
             hours |-> FloorDiv(totalSeconds % 86400, 3600),
             mins |-> FloorDiv(totalSeconds % 3600, 60),
             secs |-> totalSeconds % 60,
             done |-> FALSE]

\* ---------------------------------------------------------- frame renderer
\* String.prototype.padStart with a one-character fill.
RECURSIVE padStart(_, _, _)
padStart(str, len, fill) ==
  IF Len(str) >= len THEN str ELSE padStart(fill \o str, len, fill)

\* pad2 without the padding.
pad2Bare(n) == NumStr(Num(n))

\* String(n).padStart(2, "0")
pad2(n) == padStart(NumStr(Num(n)), 2, "0")

\* What drawCountdownFrame draws for the instant `now`: the remaining time
\* and the four digit texts, in column order.
drawCountdownFrame(width, height, now) ==
  LET p == getRemainingParts(now)
  IN [width |-> width, height |-> height, parts |-> p,
      values |-> <<pad2(p.days), pad2(p.hours), pad2(p.mins), pad2(p.secs)>>]

\* drawCountdownPNG that draws the start of the current cache period.
drawCountdownPNGStale(width, height, wallClock) ==
  [kind |-> "png",
   frame |-> drawCountdownFrame(width, height, wallClock - (wallClock % TTL))]

\* drawCountdownPNG: one frame at new Date().
drawCountdownPNG(width, height, wallClock) ==
  [kind |-> "png", frame |-> drawCountdownFrame(width, height, wallClock)]

\* The frames added by the loop `for (let i = 0; i < seconds; i++)`, frame
\* i + 1 of the sequence being the loop's frame i; i < NaN is false.
GifFrames(width, height, seconds, start) ==
  [j \in 1..(IF seconds.nan THEN 0 ELSE seconds.val) |->
     drawCountdownFrame(width, height, start + (j - 1) * 1000)]

\* buildCountdownGIF anchored at the wall clock as it is.
buildCountdownGIFUntruncated(id, width, height, seconds, wallClock) ==
  [kind |-> "gif", id |-> id, width |-> width, height |-> height,
   seconds |-> seconds, start |-> wallClock,
   frames |-> GifFrames(width, height, seconds, wallClock)]

\* buildCountdownGIF: the bytes of build number id, anchored at the wall
\* clock with its milliseconds set to 0.
buildCountdownGIF(id, width, height, seconds, wallClock) ==
  LET start == wallClock - (wallClock % 1000)
  IN [kind |-> "gif", id |-> id, width |-> width, height |-> height,
      seconds |-> seconds, start |-> start,
      frames |-> GifFrames(width, height, seconds, start)]

NoBuf == [kind |-> "none"]

\* ------------------------------------------------------------------- state
Reqs == 1..NumReqs

VARIABLES
  clock,        \* Date.now()
  gifCache,     \* key -> {buf, expiresAt}
  gifInFlight,  \* key -> promise
  req,          \* the requests: handler locals, position and response
  arrived,      \* how many requests have arrived
  running,      \* the handler inside a synchronous span, or 0
  microtasks,   \* the await continuations that are ready, in order
  draining,     \* the microtask queue is being run
  buildCount    \* calls of buildCountdownGIF so far

vars ==
  <<clock, gifCache, gifInFlight, req, arrived, running, microtasks,
    draining, buildCount>>

EmptyMap == [k \in {} |-> NoBuf]
MapSet(m, k, v) == [x \in DOMAIN m \cup {k} |-> IF x = k THEN v ELSE m[x]]
MapDelete(m, k) == [x \in DOMAIN m \ {k} |-> m[x]]

NoPromise == [id |-> 0, state |-> "none", value |-> NoBuf]

NoHeaders ==
  [ContentType |-> "", CacheControl |-> "", Pragma |-> "", Expires |-> "",
   SurrogateControl |-> ""]

\* AntiCacheHeaders that leaves the decision to cache to the client.
AntiCacheHeadersTypeOnly(type) ==
  [ContentType |-> type, CacheControl |-> "", Pragma |-> "", Expires |-> "",
   SurrogateControl |-> ""]

\* The anti-caching headers both image handlers set first.
AntiCacheHeaders(type) ==
  [ContentType |-> type,
   CacheControl |->
     "no-store, no-cache, must-revalidate, proxy-revalidate, max-age=0",
   Pragma |-> "no-cache", Expires |-> "0", SurrogateControl |-> "no-store"]

FreshRes == [sent |-> 0, status |-> 200, headers |-> NoHeaders, body |-> NoBuf]

NewReq ==
  [pc |-> "new", kind |-> "none", qw |-> Absent, qh |-> Absent, qs |-> Absent,
   w |-> Num(0), h |-> Num(0), s |-> Num(0), key |-> "", now |-> 0,
   promise |-> NoPromise, built |-> FALSE, conc |-> {}, res |-> FreshRes]

\* res.end(buf) / res.status(code).end()
End(res, buf) == [res EXCEPT !.sent = @ + 1, !.body = buf]
Status(res, code) == [res EXCEPT !.status = code]

Init ==
  /\ clock = 0
  /\ gifCache = EmptyMap
  /\ gifInFlight = EmptyMap
  /\ req = [r \in Reqs |-> NewReq]
  /\ arrived = 0
  /\ running = 0
  /\ microtasks = <<>>
  /\ draining = FALSE
  /\ buildCount = 0

\* The query strings requests are drawn from: <<w, h, s>>.
QDefault == <<Absent, Absent, Absent>>
QShort == <<Absent, Absent, Q(<<"5">>)>>
QSmall == <<Q(<<"5", "0">>), Absent, Q(<<"5">>)>>
GifQueries == {QShort, QSmall}
PngQueries == {QDefault}

\* A request is in progress: its handler has started and not yet answered.
InProgress(q) == req[q].pc \in {"render", "register", "awaitOwn", "awaitJoin"}

\* CanStart of an event loop that starts handlers between two continuations.
CanStartBetweenContinuations(r) == r \in Reqs /\ arrived = r - 1 /\ running = 0

\* The event loop lets a new handler start.
CanStart(r) == r \in Reqs /\ arrived = r - 1 /\ running = 0 /\ ~draining

\* IsFresh with an entry still served at the instant it expires.
IsFreshInclusive(cache, key, now) ==
  key \in DOMAIN cache /\ cache[key].expiresAt >= now

\* cached && cached.expiresAt > now
IsFresh(cache, key, now) == key \in DOMAIN cache /\ cache[key].expiresAt > now

\* InFlightHas of a handler that never looks for a running build.
InFlightNever(inFlight, key) == FALSE

\* gifInFlight.has(key)
InFlightHas(inFlight, key) == key \in DOMAIN inFlight

\* ----------------------------------------------------------------- actions
\* GET /countdown.png: synchronous from arrival to response.
PngRequest(r, qw, qh) ==
  /\ CanStart(r)
  /\ LET w == NormW(qw)
         h == NormH(qh)
         res == [FreshRes EXCEPT !.headers = AntiCacheHeaders("image/png")]
     IN \E ok \in IF w.nan \/ h.nan THEN BOOLEAN ELSE {TRUE} :
          req' = [req EXCEPT ![r] =
                    [@ EXCEPT !.pc = "done", !.kind = "png", !.qw = qw,
                              !.qh = qh, !.w = w, !.h = h, !.now = clock,
                              !.res = IF ok
                                        THEN End(res, drawCountdownPNG(w, h, clock))
                                        ELSE End(Status(res, 500), NoBuf)]]
  /\ arrived' = r
  /\ UNCHANGED <<clock, gifCache, gifInFlight, running, microtasks, draining,
                 buildCount>>

\* GET /countdown.gif, from arrival to the cache hit, to the await of an
\* in-flight promise, or to the point where it starts its own build.
GifArrive(r, qw, qh, qs) ==
  /\ CanStart(r)
  /\ LET w == NormW(qw)
         h == NormH(qh)
         s == NormS(qs)
         key == gifKey(w, h, s)
         now == clock
         res == [FreshRes EXCEPT !.headers = AntiCacheHeaders("image/gif")]
         base == [req[r] EXCEPT !.kind = "gif", !.qw = qw, !.qh = qh,
                                !.qs = qs, !.w = w, !.h = h, !.s = s,
                                !.key = key, !.now = now, !.res = res,
                                !.conc = {q \in Reqs : InProgress(q)
                                                       /\ req[q].key = key}]
     IN IF IsFresh(gifCache, key, now)
          THEN /\ req' = [req EXCEPT ![r] =
                            [base EXCEPT !.pc = "done",
                                         !.res = End(res, gifCache[key].buf)]]
               /\ UNCHANGED <<running, microtasks>>
          ELSE IF InFlightHas(gifInFlight, key)
            THEN /\ req' = [req EXCEPT ![r] =
                              [base EXCEPT !.pc = "awaitJoin",
                                           !.promise = gifInFlight[key]]]
                 /\ microtasks' = Append(microtasks, r)
                 /\ UNCHANGED running
            ELSE /\ req' = [req EXCEPT ![r] = [base EXCEPT !.pc = "render"]]
                 /\ running' = r
                 /\ UNCHANGED microtasks
  /\ arrived' = r
  /\ UNCHANGED <<clock, gifCache, gifInFlight, draining, buildCount>>

\* CacheAfterBuild of a build that stores its result whether or not it threw.
CacheAlwaysSet(cache, key, buf, now, ok) ==
  MapSet(cache, key, [buf |-> buf, expiresAt |-> now + TTL])

\* CacheAfterBuild with the time to live taken in seconds.
CacheSecondsTTL(cache, key, buf, now, ok) ==
  IF ok THEN MapSet(cache, key, [buf |-> buf, expiresAt |-> now + TTL \div 1000])
  ELSE cache

\* CacheAfterBuild that evicts the key when the build throws.
CacheDropOnFailure(cache, key, buf, now, ok) ==
  IF ok THEN MapSet(cache, key, [buf |-> buf, expiresAt |-> now + TTL])
  ELSE MapDelete(cache, key)

\* gifCache after the body of the async function: set only when the build
\* returned.
CacheAfterBuild(cache, key, buf, now, ok) ==
  IF ok THEN MapSet(cache, key, [buf |-> buf, expiresAt |-> now + TTL])
  ELSE cache

\* The body of the async function that makes buildPromise: it runs
\* buildCountdownGIF to its end, synchronously, when the function is called.
RunBuild(r, ok) ==
  /\ running = r
  /\ req[r].pc = "render"
  /\ LET id == buildCount + 1
         buf == buildCountdownGIF(id, req[r].w, req[r].h, req[r].s, clock)
     IN /\ gifCache' = CacheAfterBuild(gifCache, req[r].key, buf, req[r].now, ok)
        /\ req' = [req EXCEPT ![r] =
                     [@ EXCEPT !.pc = "register", !.built = TRUE,
                               !.promise =
                                 IF ok THEN [id |-> id, state |-> "fulfilled",
                                             value |-> buf]
                                 ELSE [id |-> id, state |-> "rejected",
                                       value |-> NoBuf]]]
        /\ buildCount' = id
  /\ UNCHANGED <<clock, gifInFlight, arrived, running, microtasks, draining>>

\* Register without the gifInFlight.set.
RegisterSkipSet(r) ==
  /\ running = r
  /\ req[r].pc = "register"
  /\ req' = [req EXCEPT ![r].pc = "awaitOwn"]
  /\ microtasks' = Append(microtasks, r)
  /\ running' = 0
  /\ UNCHANGED <<clock, gifCache, gifInFlight, arrived, draining, buildCount>>

\* Register whose await never resumes.
RegisterNeverResumed(r) ==
  /\ running = r
  /\ req[r].pc = "register"
  /\ gifInFlight' = MapSet(gifInFlight, req[r].key, req[r].promise)
  /\ req' = [req EXCEPT ![r].pc = "awaitOwn"]
  /\ running' = 0
  /\ UNCHANGED <<clock, gifCache, arrived, microtasks, draining, buildCount>>

\* gifInFlight.set(key, buildPromise), then the await of buildPromise.
Register(r) ==
  /\ running = r
  /\ req[r].pc = "register"
  /\ gifInFlight' = MapSet(gifInFlight, req[r].key, req[r].promise)
  /\ req' = [req EXCEPT ![r].pc = "awaitOwn"]
  /\ microtasks' = Append(microtasks, r)
  /\ running' = 0
  /\ UNCHANGED <<clock, gifCache, arrived, draining, buildCount>>

\* gifInFlight after the await of a joiner: deleted in the catch block.
InFlightAfterJoin(inFlight, key, promise) ==
  IF promise.state = "rejected" THEN MapDelete(inFlight, key) ELSE inFlight

\* InFlightAfterOwn with the delete on the success path only.
InFlightAfterOwnOnSuccess(inFlight, key, promise) ==
  IF promise.state = "fulfilled" THEN MapDelete(inFlight, key) ELSE inFlight

\* gifInFlight after the await of the request that built: deleted in finally.
InFlightAfterOwn(inFlight, key, promise) == MapDelete(inFlight, key)

\* Respond without the catch block.
RespondAlwaysEnd(res, promise) == End(res, promise.value)

\* The response after an await: the bytes, or status 500 with no body.
Respond(res, promise) ==
  IF promise.state = "fulfilled" THEN End(res, promise.value)
  ELSE End(Status(res, 500), NoBuf)

\* The continuation of the first ready await.
Resume(r) ==
  /\ running = 0
  /\ microtasks # <<>>
  /\ Head(microtasks) = r
  /\ req[r].pc \in {"awaitOwn", "awaitJoin"}
  /\ gifInFlight' =
       IF req[r].pc = "awaitOwn"
         THEN InFlightAfterOwn(gifInFlight, req[r].key, req[r].promise)
         ELSE InFlightAfterJoin(gifInFlight, req[r].key, req[r].promise)
  /\ req' = [req EXCEPT ![r] =
               [@ EXCEPT !.pc = "done", !.res = Respond(@, req[r].promise)]]
  /\ microtasks' = Tail(microtasks)
  /\ draining' = (Tail(microtasks) # <<>>)
  /\ UNCHANGED <<clock, gifCache, arrived, running, buildCount>>

\* The wall clock advances, also while a handler runs.
Tick ==
  /\ clock < MaxTicks * ClockStep
  /\ clock' = clock + ClockStep
  /\ UNCHANGED <<gifCache, gifInFlight, req, arrived, running, microtasks,
                 draining, buildCount>>

Next ==
  \/ \E r \in Reqs, q \in PngQueries : PngRequest(r, q[1], q[2])
  \/ \E r \in Reqs, q \in GifQueries : GifArrive(r, q[1], q[2], q[3])
  \/ \E r \in Reqs, ok \in BOOLEAN : RunBuild(r, ok)
  \/ \E r \in Reqs : Register(r)
  \/ \E r \in Reqs : Resume(r)
  \/ Tick

Spec == Init /\ [][Next]_vars

\* GIF requests only.
NextGif ==
  \/ \E r \in Reqs, q \in GifQueries : GifArrive(r, q[1], q[2], q[3])
  \/ \E r \in Reqs, ok \in BOOLEAN : RunBuild(r, ok)
  \/ \E r \in Reqs : Register(r)
  \/ \E r \in Reqs : Resume(r)
  \/ Tick

\* The event loop keeps running: a handler inside a synchronous span goes on
\* to its end (the frame loop of buildCountdownGIF is bounded by s), and a
\* ready continuation is run.
SpecLive ==
  /\ Init
  /\ [][NextGif]_vars
  /\ WF_vars(\E r \in Reqs, ok \in BOOLEAN : RunBuild(r, ok))
  /\ WF_vars(\E r \in Reqs : Register(r))
  /\ WF_vars(\E r \in Reqs : Resume(r))

\* ------------------------------------------- one request, any query string
WInputs ==
  {Absent, Q(<<>>), Q(<<"5", "0">>), Q(<<"9", "9", "9", "9">>),
   Q(<<"6", "4", "0">>), Q(<<"0">>), Q(<<"-", "7">>), Q(<<"a", "b", "c">>),
   Q(<<" ", "8", "0", "0">>), Q(<<"3", "2", "1", "p", "x">>)}
HInputs ==
  {Absent, Q(<<>>), Q(<<"1", "3", "9">>), Q(<<"6", "0", "1">>),
   Q(<<"-", "7">>), Q(<<"x">>)}
SInputs ==
  {Absent, Q(<<"5">>), Q(<<"5", "0", "0">>), Q(<<"6", "0">>), Q(<<"1", "1">>),
   Q(<<"-">>)}

NextNorm ==
  \/ \E qw \in WInputs, qh \in HInputs : PngRequest(1, qw, qh)
  \/ \E qw \in WInputs, qh \in HInputs, qs \in SInputs :
       GifArrive(1, qw, qh, qs)
  \/ \E ok \in BOOLEAN : RunBuild(1, ok)
  \/ Register(1)
  \/ Resume(1)

SpecNorm == Init /\ [][NextNorm]_vars

\* --------------------------------------------- one frame, at any instant
\* Instants around the deadline: every combination of a few days, hours,
\* minutes, seconds and milliseconds before it, and some after it.
BeforeDeadline ==
  {a * 86400000 + b * 3600000 + c * 60000 + e * 1000 + f :
     a \in 0..2, b \in {0, 1, 23}, c \in {0, 59}, e \in {0, 1, 59},
     f \in {0, 1, 999}}
TimeInputs ==
  {TARGET - d : d \in BeforeDeadline} \cup {TARGET + 1, TARGET + 86400000}

InitTime ==
  /\ clock \in TimeInputs
  /\ gifCache = EmptyMap
  /\ gifInFlight = EmptyMap
  /\ req = [r \in Reqs |-> NewReq]
  /\ arrived = 0
  /\ running = 0
  /\ microtasks = <<>>
  /\ draining = FALSE
  /\ buildCount = 0

NextTime ==
  \/ \E q \in PngQueries : PngRequest(1, q[1], q[2])
  \/ \E q \in GifQueries \cup {QDefault} : GifArrive(1, q[1], q[2], q[3])
  \/ \E ok \in BOOLEAN : RunBuild(1, ok)
  \/ Register(1)
  \/ Resume(1)

SpecTime == InitTime /\ [][NextTime]_vars

\* ------------------------------------------------------------------ claims
Arrived(r) == req[r].kind # "none"

\* A decimal integer literal, and the integer it denotes.
IsIntLiteral(t) ==
  /\ t # <<>>
  /\ LET u == IF Head(t) = "-" THEN Tail(t) ELSE t
     IN u # <<>> /\ \A i \in 1..Len(u) : IsDigit(u[i])

RECURSIVE LiteralValue(_)
LiteralValue(t) ==
  IF t = <<>> THEN 0
  ELSE IF Head(t) = "-" THEN 0 - LiteralValue(Tail(t))
  ELSE LiteralValue(SubSeq(t, 1, Len(t) - 1)) * 10 + DigitVal(t[Len(t)])

Limited(v, lo, hi) == IF v < lo THEN lo ELSE IF v > hi THEN hi ELSE v

\* What the claim says of one parameter: its default when absent, and the
\* value limited to [lo, hi] when it is an integer.
NormalisedAs(q, n, dflt, lo, hi) ==
  /\ ~q.present => n = Num(dflt)
  /\ q.present /\ IsIntLiteral(q.text)
       => n = Num(Limited(LiteralValue(q.text), lo, hi))

\* C8: a numeric query value v is normalised to min(max(v, lo), hi), with
\* (lo, hi) = (320, 1200) for w, (140, 600) for h and (10, 120) for s; an
\* absent parameter gives 640, 200 and 60; w=50 gives 320, w=9999 gives
\* 1200, s=5 gives 10 and s=500 gives 120.
C8_Clamping ==
  \A r \in Reqs :
    Arrived(r) =>
      /\ NormalisedAs(req[r].qw, req[r].w, 640, 320, 1200)
      /\ NormalisedAs(req[r].qh, req[r].h, 200, 140, 600)
      /\ req[r].kind = "gif"
           => /\ NormalisedAs(req[r].qs, req[r].s, 60, 10, 120)
              /\ req[r].qs = Q(<<"5">>) => req[r].s = Num(10)
              /\ req[r].qs = Q(<<"5", "0", "0">>) => req[r].s = Num(120)
      /\ req[r].qw = Q(<<"5", "0">>) => req[r].w = Num(320)
      /\ req[r].qw = Q(<<"9", "9", "9", "9">>) => req[r].w = Num(1200)

\* A GIF request with w=9999 and s=5, and one with every parameter absent.
C8_Witness ==
  \E r \in Reqs :
    /\ req[r].kind = "gif"
    /\ req[r].qw = Q(<<"9", "9", "9", "9">>)
    /\ req[r].qs = Q(<<"5">>)
    /\ req[r].qh = Q(<<"6", "0", "1">>)
    /\ req[r].w = Num(1200) /\ req[r].h = Num(600) /\ req[r].s = Num(10)

InRange(n, lo, hi) == ~n.nan /\ lo <= n.val /\ n.val <= hi

\* C9: whatever its w, h, s query values, every request to /countdown.png
\* or /countdown.gif is normalised to a width in [320,1200], a height in
\* [140,600] and a duration in [10,120].
C9_AlwaysInRange ==
  \A r \in Reqs :
    Arrived(r) =>
      /\ InRange(req[r].w, 320, 1200)
      /\ InRange(req[r].h, 140, 600)
      /\ req[r].kind = "gif" => InRange(req[r].s, 10, 120)

\* C10: for every instant now < target the fields of getRemainingParts(now)
\* add up to floor((target - now) / 1000) seconds, with hours < 24,
\* mins < 60 and secs < 60.
C10_PartsReconstruct ==
  \A r \in Reqs :
    (req[r].kind = "png" /\ req[r].res.status = 200 /\ req[r].now < TARGET) =>
      LET p == req[r].res.body.frame.parts
          total == p.days * 86400 + p.hours * 3600 + p.mins * 60 + p.secs
          diff == TARGET - req[r].now
      IN /\ total * 1000 <= diff
         /\ diff < total * 1000 + 1000
         /\ p.hours < 24 /\ p.mins < 60 /\ p.secs < 60

\* A frame drawn 2 days 23:59:59.999 before the deadline.
C10_Witness ==
  \E r \in Reqs :
    /\ req[r].kind = "png" /\ req[r].res.status = 200
    /\ TARGET - req[r].now = 259199999
    /\ req[r].res.body.frame.parts =
         [days |-> 2, hours |-> 23, mins |-> 59, secs |-> 59, done |-> FALSE]

\* ----------------------------------------------- claims on the GIF cache
Done(r) == req[r].pc = "done"
IsGif(r) == req[r].kind = "gif"

\* The build of r is active: started by r, and r has not yet resumed from
\* the await of its promise.
BuildActive(r) == req[r].pc \in {"render", "register", "awaitOwn"}

\* C1: requests for one key that are in progress together share one build:
\* a request that arrives while others for its key are in progress runs no
\* build of its own, and is answered as they are, with the bytes of their
\* build or with a failure.
C1_OneBuildShared ==
  \A r \in Reqs : \A q \in req[r].conc :
    /\ ~req[r].built
    /\ req[r].promise.id \in {0, req[q].promise.id}
    /\ req[q].promise.id # 0
    /\ (Done(r) /\ Done(q)) =>
         /\ req[r].res.status = req[q].res.status
         /\ req[r].res.body = req[q].res.body
         /\ req[r].res.status = 200 => req[r].res.body.id = req[q].promise.id

\* Three requests for one key in progress together, all answered with the
\* bytes of the one build.
C1_Witness ==
  \E r \in Reqs :
    /\ Cardinality(req[r].conc) >= 2
    /\ \A q \in req[r].conc \cup {r} : Done(q) /\ req[q].res.status = 200
    /\ buildCount = 1

\* C2: at most one build per cache key is active.
C2_OneActiveBuildPerKey ==
  \A r1, r2 \in Reqs :
    (r1 # r2 /\ BuildActive(r1) /\ BuildActive(r2)) => req[r1].key # req[r2].key

\* Builds of two keys active together, and a request waiting on one of them.
C2_Witness ==
  \E r1, r2, r3 \in Reqs :
    /\ req[r1].pc = "awaitOwn" /\ req[r2].pc = "awaitOwn"
    /\ req[r1].key # req[r2].key
    /\ req[r3].pc = "awaitJoin" /\ req[r3].key = req[r1].key

\* C3: while the render of a request's build runs, the build is already
\* recorded in gifInFlight under its key.
C3_RegisteredBeforeRender ==
  \A r \in Reqs :
    req[r].pc = "render" => InFlightHas(gifInFlight, req[r].key)

\* The latest build for the key of q was q's; it threw and q has answered.
FailedAndOver(q, key) ==
  /\ req[q].built /\ req[q].key = key
  /\ req[q].promise.state = "rejected" /\ Done(q)
  /\ \A o \in Reqs :
       (req[o].built /\ req[o].key = key) => req[o].promise.id <= req[q].promise.id

\* C4: when buildCountdownGIF throws, the request that started the build and
\* every request that joined it answer 500 with an empty body, and a request
\* for the key that arrives after that build is over starts a build of its
\* own.
C4_FailureAnswersAndRetry ==
  /\ [](\A r \in Reqs :
          (Done(r) /\ req[r].promise.state = "rejected") =>
            /\ req[r].res.status = 500
            /\ req[r].res.body = NoBuf
            /\ req[r].res.sent = 1)
  /\ [][\A r \in Reqs :
          (/\ req[r].pc = "new"
           /\ req'[r].kind = "gif"
           /\ \E q \in Reqs : FailedAndOver(q, req'[r].key))
          => req'[r].pc = "render"]_vars

\* A failed build answered 500 to its starter and to a joiner, and a later
\* request for the key built again.
C4_Witness ==
  \E r1, r2, r3 \in Reqs :
    /\ req[r1].built /\ req[r1].promise.state = "rejected" /\ Done(r1)
    /\ r2 # r1 /\ ~req[r2].built /\ Done(r2)
    /\ req[r2].promise = req[r1].promise /\ req[r2].res.status = 500
    /\ req[r3].built /\ req[r3].key = req[r1].key
    /\ req[r3].promise.id > req[r1].promise.id

\* C5: no step of a request whose build failed changes gifCache.
C5_FailureKeepsCache ==
  [][\A r \in Reqs :
       (req'[r] # req[r] /\ req'[r].promise.state = "rejected")
         => gifCache' = gifCache]_vars

\* A failed build is over; the cache holds another key and not the failed one.
C5_Witness ==
  \E r \in Reqs :
    /\ req[r].built /\ req[r].promise.state = "rejected" /\ Done(r)
    /\ DOMAIN gifCache # {}
    /\ req[r].key \notin DOMAIN gifCache

\* C6: an entry of gifInFlight is the promise of a request that started a
\* build and has not yet resumed from its await; when that request resumes,
\* after success or failure, the entry is gone; and with no request in
\* progress gifInFlight is empty.
C6_InFlightOnlyWhileBuilding ==
  /\ \A k \in DOMAIN gifInFlight :
       \E r \in Reqs :
         /\ req[r].pc = "awaitOwn" /\ req[r].key = k
         /\ req[r].promise = gifInFlight[k]
  /\ \A r \in Reqs :
       (Done(r) /\ req[r].built)
         => (~InFlightHas(gifInFlight, req[r].key)
             \/ gifInFlight[req[r].key] # req[r].promise)
  /\ (\A r \in Reqs : ~InProgress(r)) => gifInFlight = EmptyMap

\* Nothing is in progress after a build that succeeded and one that failed.
C6_Witness ==
  /\ \A r \in Reqs : ~InProgress(r)
  /\ \E r1, r2 \in Reqs :
       /\ req[r1].built /\ req[r1].promise.state = "fulfilled"
       /\ req[r2].built /\ req[r2].promise.state = "rejected"

\* C7: a GIF request that arrives at `now` and finds an entry for its key
\* with expiresAt > now answers that entry's bytes at once, runs no build
\* and leaves gifCache and gifInFlight as they were; otherwise it is not
\* answered from the cache and starts a build or joins the one in flight.
C7_ServedOnlyWhileFresh ==
  [][\A r \in Reqs :
       (req[r].pc = "new" /\ req'[r].kind = "gif") =>
         LET k == req'[r].key
         IN /\ req'[r].now = clock
            /\ IF k \in DOMAIN gifCache /\ gifCache[k].expiresAt > clock
                 THEN /\ req'[r].pc = "done"
                      /\ req'[r].res.sent = 1
                      /\ req'[r].res.status = 200
                      /\ req'[r].res.body = gifCache[k].buf
                      /\ ~req'[r].built
                      /\ buildCount' = buildCount
                      /\ gifCache' = gifCache
                      /\ gifInFlight' = gifInFlight
                 ELSE /\ req'[r].pc \in {"render", "awaitJoin"}
                      /\ req'[r].res.sent = 0]_vars

\* One request was served an entry half way through its life, and another,
\* arriving at the instant the entry expired, built again.
C7_Witness ==
  \E r1, r2 \in Reqs :
    /\ IsGif(r1) /\ Done(r1) /\ req[r1].promise.id = 0
    /\ req[r1].res.status = 200 /\ req[r1].now = ClockStep
    /\ req[r1].res.body.start = 0
    /\ req[r2].built /\ req[r2].key = req[r1].key /\ req[r2].now = TTL

\* ------------------------------------------------- claims on the frames
\* C11: for every instant now >= target getRemainingParts(now) has days,
\* hours, mins and secs all 0 and done true, and the frame is drawn as for
\* any other instant.
C11_ElapsedAllZero ==
  \A r \in Reqs :
    (req[r].kind = "png" /\ req[r].now >= TARGET /\ ~req[r].w.nan /\ ~req[r].h.nan)
      => /\ req[r].res.status = 200
         /\ req[r].res.body.frame.parts =
              [days |-> 0, hours |-> 0, mins |-> 0, secs |-> 0, done |-> TRUE]

\* A frame drawn at the deadline instant.
C11_Witness ==
  \E r \in Reqs :
    /\ req[r].kind = "png" /\ req[r].res.sent = 1
    /\ req[r].now = TARGET
    /\ req[r].res.body.frame.parts.done

\* C12: buildCountdownGIF with duration s renders exactly s frames, in order
\* i = 0..s-1, frame i showing getRemainingParts(start + i seconds), where
\* start is the wall clock at build time truncated to a whole second.
C12_FramesOnePerSecond ==
  \A r \in Reqs :
    (req[r].built /\ req[r].promise.state = "fulfilled" /\ ~req[r].s.nan) =>
      LET b == req[r].promise.value
      IN /\ b.start % 1000 = 0
         /\ b.start <= clock /\ clock < b.start + 1000
         /\ Len(b.frames) = req[r].s.val
         /\ \A i \in 0..(req[r].s.val - 1) :
              /\ b.frames[i + 1].parts = getRemainingParts(b.start + i * 1000)
              /\ b.frames[i + 1].width = req[r].w
              /\ b.frames[i + 1].height = req[r].h

\* A 60-frame build made 999 ms into a second.
C12_Witness ==
  \E r \in Reqs :
    /\ req[r].built /\ req[r].promise.state = "fulfilled"
    /\ req[r].s = Num(60)
    /\ Len(req[r].promise.value.frames) = 60
    /\ req[r].now - req[r].promise.value.start = 999

\* C13: a request to /countdown.png leaves gifCache and gifInFlight as they
\* are, runs no GIF build, and answers at once with a frame drawn for the
\* instant of the request, whatever requests came before.
C13_PngBypassesCache ==
  [][\A r \in Reqs :
       (req[r].pc = "new" /\ req'[r].kind = "png") =>
         /\ gifCache' = gifCache
         /\ gifInFlight' = gifInFlight
         /\ buildCount' = buildCount
         /\ microtasks' = microtasks
         /\ req'[r].pc = "done"
         /\ req'[r].res.sent = 1
         /\ (~req'[r].w.nan /\ ~req'[r].h.nan) =>
              /\ req'[r].res.status = 200
              /\ req'[r].res.body.kind = "png"
              /\ req'[r].res.body.frame.parts = getRemainingParts(clock)
              /\ req'[r].res.body.frame.width = req'[r].w
              /\ req'[r].res.body.frame.height = req'[r].h]_vars

\* A PNG, then a GIF build that is cached and still in flight, then a second
\* PNG half a minute later that shows another time than the first.
C13_Witness ==
  \E r1, q, r2 \in Reqs :
    /\ r1 < q /\ q < r2
    /\ req[r1].kind = "png" /\ req[r2].kind = "png" /\ Done(r2)
    /\ req[q].pc = "awaitOwn" /\ req[q].key \in DOMAIN gifCache
    /\ req[q].key \in DOMAIN gifInFlight
    /\ req[r2].now = ClockStep
    /\ req[r1].res.body # req[r2].res.body

\* C14: every response of /countdown.gif carries the same no-cache headers,
\* whether its body came from gifCache, from a joined in-flight build or
\* from a build the request started, and also when it is a 500.
C14_SameNoCacheHeaders ==
  \A r \in Reqs :
    (IsGif(r) /\ req[r].res.sent > 0) =>
      /\ req[r].res.headers.ContentType = "image/gif"
      /\ req[r].res.headers.CacheControl =
           "no-store, no-cache, must-revalidate, proxy-revalidate, max-age=0"
      /\ req[r].res.headers.Pragma = "no-cache"
      /\ req[r].res.headers.Expires = "0"
      /\ req[r].res.headers.SurrogateControl = "no-store"

\* One build answered three requests: the one that started it, one served
\* from gifCache and one that joined the promise in flight.
C14_Witness ==
  \E a, b, c \in Reqs :
    /\ req[a].built /\ Done(a) /\ req[a].res.status = 200
    /\ IsGif(b) /\ Done(b) /\ req[b].promise.id = 0
    /\ req[b].res.body = req[a].res.body
    /\ ~req[c].built /\ Done(c) /\ req[c].promise = req[a].promise

\* C15: a build that has started runs to its end, and every GIF request that
\* started or joined a build is eventually answered, exactly once, with the
\* bytes or with a 500: a request stays in progress until its one answer, and
\* from some point on no request is in progress any more.
C15_EveryRequestAnsweredOnce ==
  /\ [](\A r \in Reqs :
          /\ req[r].res.sent <= 1
          /\ Done(r) <=> req[r].res.sent = 1
          /\ (Done(r) /\ req[r].promise.id # 0) =>
               \/ req[r].res.status = 200 /\ req[r].res.body = req[r].promise.value
               \/ req[r].res.status = 500 /\ req[r].promise.state = "rejected")
  /\ [](\A r \in Reqs : InProgress(r) => req[r].res.sent = 0)
  /\ <>[](\A r \in Reqs : ~InProgress(r))

\* A request that started a build and two that joined it, all answered.
C15_Witness ==
  \E a, b, c \in Reqs :
    /\ b # c
    /\ req[a].built /\ Done(a)
    /\ ~req[b].built /\ req[b].promise = req[a].promise /\ Done(b)
    /\ ~req[c].built /\ req[c].promise = req[a].promise /\ Done(c)

\* The latest build for its key that returned was started by q.
LatestSuccess(q) ==
  /\ req[q].built /\ req[q].promise.state = "fulfilled"
  /\ \A o \in Reqs :
       (req[o].built /\ req[o].promise.state = "fulfilled"
        /\ req[o].key = req[q].key) => req[o].promise.id <= req[q].promise.id

\* C16: after a successful build gifCache[key] holds exactly the bytes
\* answered to the requesters of that build, with expiresAt the arrival
\* instant of the request that started the build plus 60000 ms.
C16_CacheHoldsBuild ==
  \A q \in Reqs :
    LatestSuccess(q) =>
      /\ req[q].key \in DOMAIN gifCache
      /\ gifCache[req[q].key] =
           [buf |-> req[q].promise.value, expiresAt |-> req[q].now + 60000]
      /\ \A r \in Reqs :
           (Done(r) /\ req[r].promise.id = req[q].promise.id)
             => /\ req[r].res.status = 200
                /\ req[r].res.body = gifCache[req[q].key].buf

\* A build that took two clock steps, answered to its starter and a joiner.
C16_Witness ==
  \E q, r \in Reqs :
    /\ LatestSuccess(q) /\ Done(q)
    /\ req[q].promise.value.start = req[q].now + 2 * ClockStep
    /\ r # q /\ Done(r) /\ req[r].promise = req[q].promise

\* The decimal digits of n, most significant first.
RECURSIVE Decimal(_)
Decimal(n) ==
  IF n < 10 THEN DigitChars[n + 1]
  ELSE Decimal((n - (n % 10)) \div 10) \o DigitChars[(n % 10) + 1]

\* n written with at least two digits, a leading "0" making up the second.
ZeroPadded2(n) == IF n < 10 THEN "0" \o Decimal(n) ELSE Decimal(n)

\* The frames a request was answered or built with.
FramesDrawn(r) ==
  IF req[r].kind = "png" /\ req[r].res.status = 200
    THEN {req[r].res.body.frame}
  ELSE IF req[r].built /\ req[r].promise.state = "fulfilled"
    THEN {req[r].promise.value.frames[i] :
            i \in 1..Len(req[r].promise.value.frames)}
  ELSE {}

PadsToTwo == \A n \in 0..MaxPadded : pad2(n) = ZeroPadded2(n)

C18_RemovesOwnEntryOnly ==
  [][\A r \in Reqs :
       (req[r].pc \in {"awaitOwn", "awaitJoin"} /\ req'[r].pc = "done") =>
         /\ \A k \in DOMAIN gifInFlight \ DOMAIN gifInFlight' :
              k = req[r].key /\ gifInFlight[k] = req[r].promise
         /\ \A k \in DOMAIN gifInFlight' :
              k \in DOMAIN gifInFlight /\ gifInFlight'[k] = gifInFlight[k]]_vars

\* A joiner of a failed build has run its catch block, and a newer build for
\* the same key is in flight.
C18_Witness ==
  \E a, b, c \in Reqs :
    /\ req[a].built /\ req[a].promise.state = "rejected" /\ Done(a)
    /\ ~req[b].built /\ req[b].promise = req[a].promise /\ Done(b)
    /\ req[c].pc = "awaitOwn" /\ req[c].key = req[a].key
    /\ InFlightHas(gifInFlight, req[c].key)
    /\ gifInFlight[req[c].key] = req[c].promise

\* The (w, h, s) of the builds that returned.
BuiltTriples ==
  {<<req[r].w, req[r].h, req[r].s>> :
     r \in {q \in Reqs : req[q].built /\ req[q].promise.state = "fulfilled"}}

\* C19: no operation removes an entry from gifCache: an expired entry stays
\* until a later successful build for its key overwrites it, so the set of
\* cached keys never shrinks, and it holds one entry per distinct (w, h, s)
\* ever built successfully.
C19_CacheNeverShrinks ==
  /\ [](/\ DOMAIN gifCache =
             {req[r].key : r \in {q \in Reqs : req[q].built
                                    /\ req[q].promise.state = "fulfilled"}}
        /\ Cardinality(DOMAIN gifCache) = Cardinality(BuiltTriples))
  /\ [][/\ DOMAIN gifCache \subseteq DOMAIN gifCache'
        /\ \A k \in DOMAIN gifCache :
             gifCache'[k] # gifCache[k] =>
               \E r \in Reqs :
                 /\ req[r].pc = "render" /\ req[r].key = k
                 /\ req'[r].promise.state = "fulfilled"
                 /\ gifCache'[k].buf = req'[r].promise.value]_vars

\* An entry has expired, a later build for its key failed, and the entry is
\* still in the map beside the entry of another key.
C19_Witness ==
  \E a, b \in Reqs :
    /\ req[a].built /\ req[a].promise.state = "fulfilled"
    /\ req[b].built /\ req[b].promise.state = "rejected" /\ Done(b)
    /\ req[b].key = req[a].key /\ b > a
    /\ gifCache[req[a].key].buf = req[a].promise.value
    /\ gifCache[req[a].key].expiresAt <= clock

\* The normalised (w, h, s) of every combination of the query strings.
NormTriples ==
  {<<NormW(qw), NormH(qh), NormS(qs)>> :
     qw \in WInputs, qh \in HInputs, qs \in SInputs}

KeysInjective ==
  \A t1, t2 \in NormTriples :
    (gifKey(t1[1], t1[2], t1[3]) = gifKey(t2[1], t2[2], t2[3])) <=> (t1 = t2)

\* C20: the bytes answered to a GIF request with normalised (w, h, s), from
\* gifCache, from a joined build or from its own build, were made by a
\* buildCountdownGIF call with that width, height and duration; distinct
\* triples have distinct keys and identical triples the same key.
C20_BytesMatchParameters ==
  /\ KeysInjective
  /\ \A r \in Reqs :
       (IsGif(r) /\ req[r].res.sent = 1 /\ req[r].res.status = 200) =>
         /\ req[r].res.body.kind = "gif"
         /\ req[r].res.body.width = req[r].w
         /\ req[r].res.body.height = req[r].h
         /\ req[r].res.body.seconds = req[r].s
  /\ \A r1, r2 \in Reqs :
       (IsGif(r1) /\ IsGif(r2)) =>
         ((req[r1].key = req[r2].key)
            <=> (<<req[r1].w, req[r1].h, req[r1].s>>
                   = <<req[r2].w, req[r2].h, req[r2].s>>))
  /\ \A k \in DOMAIN gifCache :
       k = gifKey(gifCache[k].buf.width, gifCache[k].buf.height,
                  gifCache[k].buf.seconds)

\* Two keys are cached; one request was served its key's bytes from the
\* cache while the other key was built by another request.
C20_Witness ==
  \E a, b, c \in Reqs :
    /\ req[a].built /\ Done(a) /\ req[a].res.status = 200
    /\ IsGif(b) /\ Done(b) /\ req[b].promise.id = 0
    /\ req[b].key = req[a].key /\ req[b].res.body.width = req[b].w
    /\ req[c].built /\ Done(c) /\ req[c].res.status = 200
    /\ req[c].key # req[a].key
    /\ req[c].res.body.width # req[a].res.body.width

====
